---- MODULE Spec2Model ----
(***************************************************************************)
(* Verification model of the decentralized_bets frontend: WalletService    *)
(* (wallet session), LoggerService (log store), NavbarComponent and        *)
(* HomeComponent.                                                          *)
(*                                                                         *)
(* Granularity.  The browser runs one task at a time.  One action of this  *)
(* model is one task: a user intent, the settling of an awaited wallet     *)
(* capability (together with the promise continuations it releases, which  *)
(* run as microtasks of the same task), a wallet event, or the HTTP        *)
(* response.  Angular flushes the root effect of WalletService when the    *)
(* microtask queue of the task has drained, so the effect (cleanup of the  *)
(* previous run, then the new run) is the last part of every action that   *)
(* changes the activeWallet signal.                                        *)
(*                                                                         *)
(* Environment.  The wallet adapters are third-party objects.  A connect   *)
(* capability settles by resolving or by rejecting.  A disconnect          *)
(* capability settles by emitting the adapter's 'disconnect' event and     *)
(* resolving (what the wallet-adapter implementations do), or by           *)
(* rejecting.  A wallet may also emit 'disconnect' and 'error' events on   *)
(* its own at any time.                                                    *)
(***************************************************************************)
EXTENDS Naturals, Sequences, FiniteSets, Bags, TLC

(* ---- bounds ---------------------------------------------------------- *)
\* longest log the model builds
MaxLog == 3
\* most service calls (connectWallet / disconnect) awaiting a capability at once
MaxCalls == 2
\* number of declared adapters in the catalog specification
MaxCatalog == 4

(* ---- wallet catalog -------------------------------------------------- *)
Null == "null"

\* the declared adapters (the first three of the thirty-two declared)
all_wallets == <<"Phantom", "Solflare", "Alpha">>

WalletNames == {all_wallets[i] : i \in DOMAIN all_wallets}

ReadyStates == {"Installed", "Loadable", "NotDetected", "Unsupported"}

\* a name the navbar may be handed that is no wallet of the catalog
UnknownName == "Unknown"

priority(rs) ==
  CASE rs = "Installed"   -> 0
    [] rs = "Loadable"    -> 1
    [] rs = "NotDetected" -> 2
    [] rs = "Unsupported" -> 3

\* the bug of an unstable sort: x goes before the elements of equal priority
RECURSIVE InsertByPriority_unstable(_, _, _)
InsertByPriority_unstable(sorted, x, rs) ==
  IF sorted = << >> THEN <<x>>
  ELSE IF priority(rs[x]) <= priority(rs[Head(sorted)])
       THEN <<x>> \o sorted
       ELSE <<Head(sorted)>> \o InsertByPriority_unstable(Tail(sorted), x, rs)

\* x inserted after every element whose priority is not greater (stable)
RECURSIVE InsertByPriority(_, _, _)
InsertByPriority(sorted, x, rs) ==
  IF sorted = << >> THEN <<x>>
  ELSE IF priority(rs[x]) < priority(rs[Head(sorted)])
       THEN <<x>> \o sorted
       ELSE <<Head(sorted)>> \o InsertByPriority(Tail(sorted), x, rs)

\* Array.prototype.sort with the priority comparator: a stable sort
RECURSIVE SortByPriority(_, _)
SortByPriority(ws, rs) ==
  IF ws = << >> THEN << >>
  ELSE InsertByPriority(SortByPriority(SubSeq(ws, 1, Len(ws) - 1), rs),
                        ws[Len(ws)], rs)

\* the readyState of each adapter at startup: two of the three wallets are
\* installed browser extensions, once in declaration order and once not
ReadyStateCases ==
  {[w \in WalletNames |-> IF w = "Alpha" THEN "NotDetected" ELSE "Installed"],
   [w \in WalletNames |-> IF w = "Phantom" THEN "Loadable" ELSE "Installed"]}

(* ---- state ----------------------------------------------------------- *)
VARIABLES
  readyState,    \* WalletAdapter.readyState of each declared wallet
  wallets,       \* WalletService.wallets signal: the sorted catalog
  activeWallet,  \* WalletService.activeWallet signal: a wallet name or Null
  handlers,      \* per wallet, the number of session handlers registered
                 \* with on('disconnect') and on('error')
  pending,       \* bag of service calls suspended at an await
  logs,          \* LoggerService.logs signal
  printCalls,    \* number of printLog calls so far (the clock of the stamps)
  leagues,       \* HomeComponent.leagues
  fetch,         \* the get_leagues request: "pending", "done" or "failed"
  openWallet,    \* NavbarComponent.openWallet signal
  unhandledRejection  \* a promise of connectWallet / disconnect has
                      \* rejected with nobody handling it

vars == <<readyState, wallets, activeWallet, handlers, pending, logs,
          printCalls, leagues, fetch, openWallet, unhandledRejection>>

\* the league lists a response may carry (leagues named by their id)
LeaguePayloads == {<<1>>, <<1, 2>>}

NoHandlers == [disconnect |-> 0, error |-> 0]

(* ---- LoggerService --------------------------------------------------- *)
\* one log entry; the stamp stands for the timestamp (new Date()): the
\* position of the printLog call in the order of all printLog calls
Log(topic, message, stamp) ==
  [topic |-> topic, message |-> message, timestamp |-> stamp]

\* the bug of prepending the new entry
printLog_prepend(ls, n, topic, message) ==
  [logs |-> <<Log(topic, message, n + 1)>> \o ls, printCalls |-> n + 1]

\* logs.update(logs => [...logs, {topic, message, timestamp}])
printLog(ls, n, topic, message) ==
  [logs |-> Append(ls, Log(topic, message, n + 1)), printCalls |-> n + 1]

\* the messages: the wallet's name and the fixed text around it
Msg(w, text) == <<w, text>>

(* ---- WalletService: the effect and the handlers it registers ---------- *)
\* wallet.on(event, handler) / wallet.off(event, handler)
on(h, w, event)  == [h EXCEPT ![w][event] = @ + 1]
off(h, w, event) == [h EXCEPT ![w][event] = IF @ > 0 THEN @ - 1 ELSE 0]

\* the bug of the earlier variant of the service: handlers attached with no
\* matching removal
effect_noCleanup(old, new, h) ==
  IF old = new \/ new = Null THEN h
  ELSE on(on(h, new, "disconnect"), new, "error")

\* effect((onCleanup) => ...): runs again when the activeWallet signal has
\* changed (old -> new): first the cleanup registered by the previous run
\* (off, off on the wallet that run read), then the new run (on, on, unless
\* the signal is null)
effect(old, new, h) ==
  IF old = new THEN h
  ELSE LET cleaned == IF old = Null THEN h
                      ELSE off(off(h, old, "disconnect"), old, "error")
       IN IF new = Null THEN cleaned
          ELSE on(on(cleaned, new, "disconnect"), new, "error")

\* number of on() and of off() calls the effect makes for old -> new
Subscribed(old, new)   == IF old # new /\ new # Null THEN 2 ELSE 0
Unsubscribed(old, new) == IF old # new /\ old # Null THEN 2 ELSE 0

\* the part of the state the session's callbacks write
Cur == [activeWallet |-> activeWallet, logs |-> logs, printCalls |-> printCalls]

Logged(s, topic, message) ==
  LET p == printLog(s.logs, s.printCalls, topic, message)
  IN [s EXCEPT !.logs = p.logs, !.printCalls = p.printCalls]

\* the bug of a handler that logs and forgets to clear the signal
disconnectHandler_noClear(s, wallet) ==
  Logged(s, "info", Msg(wallet, "disconnected"))

\* const disconnectHandler = () => { printLog('info', ...); activeWallet.set(null) }
disconnectHandler(s, wallet) ==
  [Logged(s, "info", Msg(wallet, "disconnected")) EXCEPT !.activeWallet = Null]

\* the bug of an error handler that also drops the session
errorHandler_clears(s, wallet) ==
  [Logged(s, "error", Msg(wallet, "error")) EXCEPT !.activeWallet = Null]

\* const errorHandler = (error) => { printLog('error', ...) }
errorHandler(s, wallet) ==
  Logged(s, "error", Msg(wallet, "error"))

\* the adapter emits `event`: each of the n handlers registered for it runs
RECURSIVE emit(_, _, _, _)
emit(s, wallet, event, n) ==
  IF n = 0 THEN s
  ELSE emit(IF event = "disconnect" THEN disconnectHandler(s, wallet)
            ELSE errorHandler(s, wallet),
            wallet, event, n - 1)

\* the bug of a catch that also resets the session
connectCatch_reset(s, wallet) ==
  [Logged(s, "error", Msg(wallet, "error")) EXCEPT !.activeWallet = Null]

\* .catch((e) => { printLog('error', ...) })
connectCatch(s, wallet) ==
  Logged(s, "error", Msg(wallet, "error"))

\* the bug of a then that logs and does not set the signal
connectThen_noSet(s, wallet) ==
  Logged(s, "info", Msg(wallet, "connected"))

\* .then(() => { activeWallet.set(wallet); printLog('info', ...) })
connectThen(s, wallet) ==
  Logged([s EXCEPT !.activeWallet = wallet], "info", Msg(wallet, "connected"))

\* the bug of the earlier variant of the service: no early return
AlreadyActive_never(active, wallet) == FALSE

\* if (this.activeWallet() === wallet) return;
AlreadyActive(active, wallet) == active = wallet

\* a service call suspended at an await: `method` awaits capability
\* `awaiting` of wallet `on`; `wallet` is the argument of connectWallet;
\* atCall (activeWallet when the method was called) and infos (info entries
\* appended so far by handlers its capability calls ran) are history fields
Call(method, wallet, awaiting, onWallet, atCall, infos) ==
  [method |-> method, wallet |-> wallet, awaiting |-> awaiting,
   on |-> onWallet, atCall |-> atCall, infos |-> infos]

\* the task ends with session state s; the effect runs if the signal changed
Commit(s) ==
  /\ activeWallet' = s.activeWallet
  /\ logs' = s.logs
  /\ printCalls' = s.printCalls
  /\ handlers' = effect(activeWallet, s.activeWallet, handlers)

Awaiting(capability) == {c \in BagToSet(pending) : c.awaiting = capability}

(* ---- WalletService: connectWallet and disconnect ---------------------- *)
\* the bug of serializing with a lock that is never handed on: a call made
\* while another call is suspended waits for it and is never resumed
connectWallet_queued(wallet) ==
  /\ IF AlreadyActive(activeWallet, wallet)
     THEN pending' = pending
     ELSE /\ BagCardinality(pending) < MaxCalls
          /\ pending' = pending (+) SetToBag({
               IF pending # EmptyBag
               THEN Call("connectWallet", wallet, "previous", Null,
                         activeWallet, 0)
               ELSE IF activeWallet # Null
               THEN Call("connectWallet", wallet, "disconnect", activeWallet,
                         activeWallet, 0)
               ELSE Call("connectWallet", wallet, "connect", wallet,
                         activeWallet, 0)})
  /\ UNCHANGED <<activeWallet, handlers, logs, printCalls>>

\* connectWallet(wallet) up to its first await
connectWallet(wallet) ==
  /\ IF AlreadyActive(activeWallet, wallet)
     THEN pending' = pending
     ELSE /\ BagCardinality(pending) < MaxCalls
          /\ pending' = pending (+) SetToBag({
               IF activeWallet # Null
               THEN \* await this.disconnect()
                    Call("connectWallet", wallet, "disconnect", activeWallet,
                         activeWallet, 0)
               ELSE \* await wallet.connect()
                    Call("connectWallet", wallet, "connect", wallet,
                         activeWallet, 0)})
  /\ UNCHANGED <<activeWallet, handlers, logs, printCalls>>

\* disconnect() up to its await
disconnect ==
  /\ IF activeWallet = Null
     THEN pending' = pending
     ELSE /\ BagCardinality(pending) < MaxCalls
          /\ pending' = pending (+) SetToBag({
               Call("disconnect", Null, "disconnect", activeWallet,
                    activeWallet, 0)})
  /\ UNCHANGED <<activeWallet, handlers, logs, printCalls>>

\* the awaited wallet.disconnect() of call c resolves: the adapter has
\* emitted 'disconnect'; disconnect() returns; a connectWallet that awaited
\* it goes on to invoke wallet.connect()
DisconnectResolved(c) ==
  LET n    == handlers[c.on].disconnect
      s    == emit(Cur, c.on, "disconnect", n)
      rest == pending (-) SetToBag({c})
  IN /\ c \in Awaiting("disconnect")
     /\ Len(logs) + n <= MaxLog
     /\ Commit(s)
     /\ IF c.method = "connectWallet"
        THEN pending' = rest (+) SetToBag({[c EXCEPT !.awaiting = "connect",
                                                     !.on = c.wallet,
                                                     !.infos = @ + n]})
        ELSE pending' = rest
     /\ UNCHANGED <<readyState, wallets, leagues, fetch, openWallet,
                    unhandledRejection>>

\* the awaited wallet.disconnect() of call c rejects: the await throws, no
\* catch surrounds it, and the promise of the method rejects (the navbar
\* does not await it: an unhandled rejection); a connectWallet that awaited
\* it never invokes wallet.connect()
DisconnectRejected(c) ==
  /\ c \in Awaiting("disconnect")
  /\ pending' = pending (-) SetToBag({c})
  /\ unhandledRejection' = TRUE
  /\ UNCHANGED <<readyState, wallets, activeWallet, handlers, logs,
                 printCalls, leagues, fetch, openWallet>>

\* wallet.connect() of call c resolves: the then callback runs
ConnectResolved(c) ==
  /\ c \in Awaiting("connect")
  /\ Len(logs) < MaxLog
  /\ Commit(connectThen(Cur, c.wallet))
  /\ pending' = pending (-) SetToBag({c})
  /\ UNCHANGED <<readyState, wallets, leagues, fetch, openWallet,
                 unhandledRejection>>

\* wallet.connect() of call c rejects: the catch callback runs
ConnectRejected(c) ==
  /\ c \in Awaiting("connect")
  /\ Len(logs) < MaxLog
  /\ Commit(connectCatch(Cur, c.wallet))
  /\ pending' = pending (-) SetToBag({c})
  /\ UNCHANGED <<readyState, wallets, leagues, fetch, openWallet,
                 unhandledRejection>>

\* wallet w emits 'disconnect' on its own (the user disconnects in the wallet)
WalletDisconnectEvent(w) ==
  /\ Len(logs) + handlers[w].disconnect <= MaxLog
  /\ Commit(emit(Cur, w, "disconnect", handlers[w].disconnect))
  /\ UNCHANGED <<readyState, wallets, pending, leagues, fetch, openWallet,
                 unhandledRejection>>

\* wallet w emits 'error'
WalletErrorEvent(w) ==
  /\ Len(logs) + handlers[w].error <= MaxLog
  /\ Commit(emit(Cur, w, "error", handlers[w].error))
  /\ UNCHANGED <<readyState, wallets, pending, leagues, fetch, openWallet,
                 unhandledRejection>>

(* ---- NavbarComponent -------------------------------------------------- *)
\* wallets().find((w) => w.name === name): the wallet of that name, or Null
find(ws, name) ==
  IF \E i \in DOMAIN ws : ws[i] = name THEN name ELSE Null

\* openWallets()
Navbar_openWallets ==
  /\ openWallet' = ~openWallet
  /\ UNCHANGED <<readyState, wallets, activeWallet, handlers, pending, logs,
                 printCalls, leagues, fetch, unhandledRejection>>

\* the bug of connecting whatever wallet is found, installed or not
Navbar_connectWallet_anyState(name) ==
  LET wallet == find(wallets, name)
  IN /\ IF wallet = Null
        THEN UNCHANGED <<activeWallet, handlers, pending, logs, printCalls,
                         openWallet>>
        ELSE /\ connectWallet(wallet)
             /\ openWallet' = FALSE
     /\ UNCHANGED <<readyState, wallets, leagues, fetch, unhandledRejection>>

\* connectWallet(name) of the navbar
Navbar_connectWallet(name) ==
  LET wallet == find(wallets, name)
  IN /\ IF wallet = Null
        THEN UNCHANGED <<activeWallet, handlers, pending, logs, printCalls,
                         openWallet>>
        ELSE IF readyState[wallet] = "Installed"
        THEN /\ connectWallet(wallet)
             /\ openWallet' = FALSE
        ELSE \* window.open(wallet.url, '_blank')
             UNCHANGED <<activeWallet, handlers, pending, logs, printCalls,
                         openWallet>>
     /\ UNCHANGED <<readyState, wallets, leagues, fetch, unhandledRejection>>

\* disconnectWallet() of the navbar
Navbar_disconnectWallet ==
  /\ disconnect
  /\ UNCHANGED <<readyState, wallets, leagues, fetch, openWallet,
                 unhandledRejection>>

(* ---- HomeComponent ---------------------------------------------------- *)
\* the bug of a subscriber that logs and does not store the leagues
LeaguesFetched_notStored(data) ==
  /\ fetch = "pending"
  /\ Len(logs) < MaxLog
  /\ leagues' = leagues
  /\ fetch' = "done"
  /\ Commit(Logged(Cur, "success", Msg(Null, "Leagues fetched successfully")))
  /\ UNCHANGED <<readyState, wallets, pending, openWallet, unhandledRejection>>

\* the subscriber of get_leagues() receives the response
LeaguesFetched(data) ==
  /\ fetch = "pending"
  /\ Len(logs) < MaxLog
  /\ leagues' = data
  /\ fetch' = "done"
  /\ Commit(Logged(Cur, "success", Msg(Null, "Leagues fetched successfully")))
  /\ UNCHANGED <<readyState, wallets, pending, openWallet, unhandledRejection>>

\* the request fails: the subscriber has no error callback
LeaguesFailed ==
  /\ fetch = "pending"
  /\ fetch' = "failed"
  /\ UNCHANGED <<readyState, wallets, activeWallet, handlers, pending, logs,
                 printCalls, leagues, openWallet, unhandledRejection>>

(* ---- specification ---------------------------------------------------- *)
\* the state once WalletService, LoggerService, the navbar and the home
\* view are constructed
Init ==
  /\ readyState \in ReadyStateCases
  /\ wallets = SortByPriority(all_wallets, readyState)
  /\ activeWallet = Null
  /\ handlers = [w \in WalletNames |-> NoHandlers]
  /\ pending = EmptyBag
  /\ logs = << >>
  /\ printCalls = 0
  /\ leagues = << >>
  /\ fetch = "pending"
  /\ openWallet = FALSE
  /\ unhandledRejection = FALSE

Next ==
  \/ Navbar_openWallets
  \/ \E name \in WalletNames \cup {UnknownName} : Navbar_connectWallet(name)
  \/ Navbar_disconnectWallet
  \/ \E c \in BagToSet(pending) : DisconnectResolved(c)
  \/ \E c \in BagToSet(pending) : DisconnectRejected(c)
  \/ \E c \in BagToSet(pending) : ConnectResolved(c)
  \/ \E c \in BagToSet(pending) : ConnectRejected(c)
  \/ \E w \in WalletNames : WalletDisconnectEvent(w)
  \/ \E w \in WalletNames : WalletErrorEvent(w)
  \/ \E data \in LeaguePayloads : LeaguesFetched(data)
  \/ LeaguesFailed

Spec == Init /\ [][Next]_vars

(* ---- specification with the settling of capabilities ------------------ *)
\* some awaited capability call settles, by resolving or by rejecting
Settle ==
  \E c \in BagToSet(pending) :
    \/ DisconnectResolved(c)
    \/ DisconnectRejected(c)
    \/ ConnectResolved(c)
    \/ ConnectRejected(c)

\* the steps of WalletService and of what drives it: the navbar's calls,
\* the settling of the awaited capability calls, the wallets' events
NextSettling ==
  \/ \E name \in WalletNames \cup {UnknownName} : Navbar_connectWallet(name)
  \/ Navbar_disconnectWallet
  \/ Settle
  \/ \E w \in WalletNames : WalletDisconnectEvent(w)
  \/ \E w \in WalletNames : WalletErrorEvent(w)

\* the assumption that every wallet capability call eventually settles
SpecSettling == Init /\ [][NextSettling]_vars /\ WF_vars(Settle)

(* ---- specification of the catalog ------------------------------------- *)
\* the first adapters of all_wallets as declared, MaxCatalog of them
DeclaredOrder == <<"Phantom", "Solflare", "Alpha", "Avana", "Bitpie", "Clover">>
CatalogWallets == SubSeq(DeclaredOrder, 1, MaxCatalog)
CatalogNames == {CatalogWallets[i] : i \in DOMAIN CatalogWallets}

\* the fields as initialized, before the constructor body runs: the adapters
\* report any readyState, the wallets signal holds []
InitCatalog ==
  /\ readyState \in [CatalogNames -> ReadyStates]
  /\ wallets = << >>
  /\ activeWallet = Null
  /\ handlers = [w \in CatalogNames |-> NoHandlers]
  /\ pending = EmptyBag
  /\ logs = << >>
  /\ printCalls = 0
  /\ leagues = << >>
  /\ fetch = "pending"
  /\ openWallet = FALSE
  /\ unhandledRejection = FALSE

\* the constructor body: sort by priority, this.wallets.set(wallets)
PublishCatalog ==
  /\ wallets = << >>
  /\ wallets' = SortByPriority(CatalogWallets, readyState)
  /\ UNCHANGED <<readyState, activeWallet, handlers, pending, logs,
                 printCalls, leagues, fetch, openWallet, unhandledRejection>>

NextCatalog == PublishCatalog

SpecCatalog == InitCatalog /\ [][NextCatalog]_vars

(* ---- claims ----------------------------------------------------------- *)
Calls == BagToSet(pending)

ConnectedEntry(w, n)    == Log("info", Msg(w, "connected"), n)
DisconnectedEntry(w, n) == Log("info", Msg(w, "disconnected"), n)
ErrorEntry(w, n)        == Log("error", Msg(w, "error"), n)

\* C1: activeWallet never changes directly from a wallet h to a different
\* wallet h': every step that leaves a wallet active either keeps the same
\* wallet or starts from null.
C1_NoDirectSwap ==
  [][(activeWallet # Null /\ activeWallet' # Null)
       => activeWallet' = activeWallet]_vars

\* C2: at most one wallet capability call of the session is pending in any
\* reachable state.
C2_Serialized == BagCardinality(pending) <= 1

C4_AsStated ==
  [][\A c \in Calls : ConnectResolved(c) =>
        /\ activeWallet' = c.wallet
        /\ logs' = Append(logs, ConnectedEntry(c.wallet, printCalls + 1))
        /\ c.infos = 0]_vars

\* C4 as amended: a connectWallet(h) whose h.connect() resolves sets
\* activeWallet to h and appends, at that moment, exactly one info entry,
\* which names h; the only other info entry appended on behalf of the call
\* is the "disconnected" entry of the wallet that was active when the call
\* was made, written by that wallet's disconnect handler.
C4_ConnectResolvedSetsAndLogs ==
  [][\A c \in Calls : ConnectResolved(c) =>
        /\ activeWallet' = c.wallet
        /\ logs' = Append(logs, ConnectedEntry(c.wallet, printCalls + 1))
        /\ c.infos <= 1
        /\ c.infos = 1 =>
             /\ c.atCall \notin {Null, c.wallet}
             /\ \E i \in DOMAIN logs :
                  logs[i] = DisconnectedEntry(c.atCall, i)]_vars

\* C4 witness: h.connect() of a call that switched wallets is about to
\* resolve, the previous wallet's "disconnected" entry already written.
C4_Witness ==
  \E c \in Calls :
    /\ c.infos = 1
    /\ c.atCall \notin {Null, c.wallet}
    /\ ENABLED ConnectResolved(c)

\* C5: connectWallet(h) called while h is the active wallet invokes no
\* capability, appends no log entry, leaves activeWallet equal to h and makes
\* the effect subscribe and unsubscribe nothing.
C5_ConnectActiveIsNoop ==
  [][\A h \in WalletNames : (activeWallet = h /\ Navbar_connectWallet(h)) =>
        /\ pending' = pending
        /\ logs' = logs
        /\ printCalls' = printCalls
        /\ activeWallet' = h
        /\ handlers' = handlers
        /\ Subscribed(activeWallet, activeWallet') = 0
        /\ Unsubscribed(activeWallet, activeWallet') = 0]_vars

\* C5 witness: the wallet list is open while a wallet is active, and the
\* user picks the active wallet again.
C5_Witness ==
  /\ activeWallet # Null
  /\ openWallet
  /\ handlers[activeWallet] = [disconnect |-> 1, error |-> 1]
  /\ ENABLED Navbar_connectWallet(activeWallet)

\* C6: disconnect() with no active wallet changes nothing; disconnect() with
\* an active wallet h invokes h.disconnect(), and when that awaited call has
\* resolved activeWallet is null and h carries no handler of the session.
C6_DisconnectClears ==
  [][/\ (activeWallet = Null /\ Navbar_disconnectWallet) =>
           UNCHANGED <<activeWallet, handlers, pending, logs, printCalls>>
     /\ \A h \in WalletNames : (activeWallet = h /\ Navbar_disconnectWallet) =>
           pending' = pending (+) SetToBag({Call("disconnect", Null,
                                  "disconnect", h, h, 0)})
     /\ \A c \in Calls : (c.method = "disconnect" /\ DisconnectResolved(c)) =>
           /\ activeWallet' = Null
           /\ handlers'[c.on] = NoHandlers]_vars

\* C7: a disconnect event of wallet h while h is active sets activeWallet to
\* null and appends exactly one info entry; while h is not active it changes
\* neither activeWallet nor the log.
C7_DisconnectEvent ==
  [][\A h \in WalletNames : WalletDisconnectEvent(h) =>
        IF activeWallet = h
        THEN /\ activeWallet' = Null
             /\ logs' = Append(logs, DisconnectedEntry(h, printCalls + 1))
        ELSE /\ activeWallet' = activeWallet
             /\ logs' = logs]_vars

\* C7 witness: a wallet is active, another was active before it, and both
\* may emit a disconnect event.
C7_Witness ==
  \E h, g \in WalletNames :
    /\ h # g
    /\ activeWallet = h
    /\ \E i \in DOMAIN logs : logs[i] = ConnectedEntry(g, i)
    /\ ENABLED WalletDisconnectEvent(h)
    /\ ENABLED WalletDisconnectEvent(g)

\* C8: when the disconnect capability awaited by a disconnect() or by a
\* connectWallet rejects, exactly one error entry is appended, nothing is
\* raised to the caller and activeWallet is unchanged.
C8_DisconnectRejectedLogged ==
  [][\A c \in Calls : DisconnectRejected(c) =>
        /\ logs' = Append(logs, ErrorEntry(c.on, printCalls + 1))
        /\ unhandledRejection' = unhandledRejection
        /\ activeWallet' = activeWallet]_vars

\* C9: in every reachable state the active wallet carries exactly one
\* disconnect handler and one error handler of the session, and every other
\* wallet carries none.
C9_HandlersOnlyOnActive ==
  \A w \in WalletNames :
    handlers[w] = IF w = activeWallet
                  THEN [disconnect |-> 1, error |-> 1]
                  ELSE NoHandlers

\* C9 witness: the active wallet has changed from one wallet to null and then
\* to another wallet.
C9_Witness ==
  \E h, g \in WalletNames :
    /\ h # g
    /\ activeWallet = h
    /\ \E i, j \in DOMAIN logs :
         /\ i < j
         /\ logs[i] = DisconnectedEntry(g, i)
         /\ logs[j] = ConnectedEntry(h, j)

\* C10: every step extends the log at its end by zero or more entries and
\* leaves the existing entries as they are; the log holds one entry per
\* printLog call, the i-th entry being that of the i-th call.
C10_AppendOnly ==
  [][/\ Len(logs') >= Len(logs)
     /\ SubSeq(logs', 1, Len(logs)) = logs
     /\ Len(logs') = printCalls'
     /\ \A i \in DOMAIN logs' : logs'[i].timestamp = i]_vars

\* C10 witness: the home view, a connect and a wallet error event have each
\* appended an entry.
C10_Witness ==
  /\ Len(logs) >= 3
  /\ \E i, j, k \in DOMAIN logs :
       /\ logs[i].topic = "success"
       /\ logs[j].topic = "info"
       /\ logs[k].topic = "error"

\* position of wallet w in the declaration
DeclaredIndex(w) == CHOOSE i \in DOMAIN CatalogWallets : CatalogWallets[i] = w

\* C11: the published wallet list is a permutation of the declared list, in
\* ascending availability priority (Installed 0, Loadable 1, NotDetected 2,
\* Unsupported 3), wallets of equal priority in their declaration order.
C11_CatalogStableSorted ==
  wallets # << >> =>
    /\ Len(wallets) = Len(CatalogWallets)
    /\ \A w \in CatalogNames :
         Cardinality({i \in DOMAIN wallets : wallets[i] = w}) = 1
    /\ \A i, j \in DOMAIN wallets : i < j =>
         LET pi == priority(readyState[wallets[i]])
             pj == priority(readyState[wallets[j]])
         IN \/ pi < pj
            \/ pi = pj /\ DeclaredIndex(wallets[i]) < DeclaredIndex(wallets[j])

\* C11 witness: readyStates [Unsupported, Installed, Loadable, Installed]
\* published as the two Installed wallets in declaration order, then the
\* Loadable one, then the Unsupported one.
C11_Witness ==
  /\ readyState["Phantom"] = "Unsupported"
  /\ readyState["Solflare"] = "Installed"
  /\ readyState["Alpha"] = "Loadable"
  /\ readyState["Avana"] = "Installed"
  /\ wallets = <<"Solflare", "Avana", "Alpha", "Phantom">>

\* C12: an error event of the active wallet h appends exactly one error entry
\* naming h and leaves activeWallet and the handler subscriptions unchanged.
C12_ErrorEvent ==
  [][\A h \in WalletNames : (activeWallet = h /\ WalletErrorEvent(h)) =>
        /\ logs' = Append(logs, ErrorEntry(h, printCalls + 1))
        /\ activeWallet' = h
        /\ handlers' = handlers
        /\ Subscribed(activeWallet, activeWallet') = 0
        /\ Unsubscribed(activeWallet, activeWallet') = 0]_vars

\* C12 witness: a wallet is active, connected by the session, and may emit
\* an error event.
C12_Witness ==
  /\ activeWallet # Null
  /\ \E i \in DOMAIN logs : logs[i] = ConnectedEntry(activeWallet, i)
  /\ ENABLED WalletErrorEvent(activeWallet)

\* C13: the one league request of the home view is never issued again once
\* answered; a response makes the displayed list exactly the leagues of the
\* payload; a failure leaves the list empty and the wallet session as it is.
C13_LeagueFetch ==
  [][/\ fetch # "pending" => fetch' = fetch
     /\ fetch' # "done" => leagues' = << >>
     /\ \A data \in LeaguePayloads : LeaguesFetched(data) =>
          /\ leagues' = data
          /\ fetch' = "done"
     /\ LeaguesFailed =>
          /\ leagues' = << >>
          /\ fetch' = "failed"
          /\ UNCHANGED <<activeWallet, handlers, pending, logs>>]_vars

\* C13 witness: the request is still unanswered while a wallet is active;
\* it may fail and it may be answered with two leagues.
C13_Witness ==
  /\ fetch = "pending"
  /\ activeWallet # Null
  /\ ENABLED LeaguesFailed
  /\ ENABLED LeaguesFetched(<<1, 2>>)

\* C14: the navbar's connectWallet(name) for an unknown name or for a wallet
\* that is not Installed invokes no capability and changes neither
\* activeWallet nor the log; every wallet a connectWallet call is made for,
\* and every active wallet, is Installed.
C14_OnlyInstalledConnects ==
  [][/\ \A name \in WalletNames \cup {UnknownName} :
          ( /\ Navbar_connectWallet(name)
            /\ \/ find(wallets, name) = Null
               \/ readyState[name] # "Installed" ) =>
          UNCHANGED <<pending, activeWallet, logs, printCalls, handlers>>
     /\ \A c \in BagToSet(pending') :
          c.method = "connectWallet" => readyState[c.wallet] = "Installed"
     /\ activeWallet' # Null => readyState[activeWallet'] = "Installed"]_vars

\* C14 witness: with the wallet list open and a wallet active, the user may
\* pick a wallet that is not Installed.
C14_Witness ==
  \E name \in WalletNames :
    /\ readyState[name] # "Installed"
    /\ activeWallet # Null
    /\ openWallet
    /\ ENABLED Navbar_connectWallet(name)

\* a step that suspends a new service call
IssuesCall == BagCardinality(pending') > BagCardinality(pending)

\* every suspended call can go on as soon as its own capability settles,
\* whatever else is suspended
EachCallCanSettle ==
  \A c \in Calls :
    /\ c.awaiting = "disconnect" => ENABLED DisconnectRejected(c)
    /\ (c.awaiting = "disconnect" /\ Len(logs) < MaxLog) =>
         ENABLED DisconnectResolved(c)
    /\ (c.awaiting = "connect" /\ Len(logs) < MaxLog) =>
         ENABLED ConnectResolved(c) /\ ENABLED ConnectRejected(c)
    /\ c.awaiting \in {"disconnect", "connect"}

\* C15: given that every capability call eventually settles, once no new
\* call is issued every connectWallet and disconnect call has eventually
\* returned (as far as the log bound lets a connect settle); and a suspended
\* call blocks no other: every suspended call can settle on its own, and a
\* later connectWallet or disconnect invokes its capability at once.
C15_CallsReturnAndDoNotBlock ==
  /\ (<>[][~IssuesCall]_vars) =>
       <>[](\/ pending = EmptyBag
            \/ /\ Len(logs) >= MaxLog
               /\ \A c \in Calls : c.awaiting = "connect")
  /\ []EachCallCanSettle
  /\ [][/\ \A h \in WalletNames :
             ( /\ Navbar_connectWallet(h)
               /\ readyState[h] = "Installed"
               /\ activeWallet # h ) =>
             \E c \in BagToSet(pending') :
               /\ c.wallet = h
               /\ c.awaiting = (IF activeWallet = Null THEN "connect"
                                ELSE "disconnect")
               /\ pending' = pending (+) SetToBag({c})
        /\ (Navbar_disconnectWallet /\ activeWallet # Null) => IssuesCall]_vars

\* C15 witness: a connectWallet call made when no wallet was active is still
\* suspended while a later call has made another wallet active.
C15_Witness ==
  \E c \in Calls :
    /\ c.atCall = Null
    /\ c.awaiting = "connect"
    /\ activeWallet \notin {Null, c.wallet}
    /\ \E i \in DOMAIN logs : logs[i] = ConnectedEntry(activeWallet, i)
====
